---- MODULE Spec2Model ----
(***************************************************************************)
(* Point-set distance and neighbour-matching toolkit of basics/            *)
(* data_handling.py: dist_pts, dist_pts_along_vec, dist_pts_periodic,      *)
(* interparticle_separation, match_points, match_values and order_curve;   *)
(* its array helpers first_true, sortrows_2d and find_peaks; the scripts   *)
(* batch_reindex_files.py and find_missing_files.py; and write_rec,        *)
(* load_dict and example_2 of h5py_wrapper.py.                             *)
(*                                                                         *)
(* Conventions.                                                            *)
(*  - A point is a tuple of integers, a point set a tuple of points.       *)
(*    TLA+ tuples are indexed from 1; every index the program returns      *)
(*    (np.argmin, inds) is kept 0-based as in Python.                      *)
(*  - An array entry the program returns as a float is kept exactly, as    *)
(*    the real number  sign * sqrt(radicand) : the integer k is            *)
(*    [sign |-> Sgn(k), radicand |-> k*k] and np.sqrt(n) is                *)
(*    [sign |-> 1, radicand |-> n].  Two such values are equal as reals    *)
(*    iff they are equal as records, and v < w iff Key(v) < Key(w).        *)
(*  - A call is an action: it records its arguments in `call` and what it  *)
(*    returned or raised in `result`.  The functions keep no state, so     *)
(*    every call starts from the idle state.                               *)
(*  - order_curve is run one loop iteration per step, from a state that    *)
(*    holds the arguments of the call; pc is its position and iters counts *)
(*    the iterations of its while loop.  caller_curve is what the object   *)
(*    the caller passed as curve holds, and pass_by_obj the object that    *)
(*    the local name pass_by is bound to.                                  *)
(*  - earlier is the set of the calls completed before the current one,    *)
(*    each with what it returned.  default_ans is what the dictionary      *)
(*    bound once to the default of load_dict's parameter ans holds.  files *)
(*    maps the names of the files of the directory to their contents and   *)
(*    stdout is the output printed so far by a script.                     *)
(***************************************************************************)
EXTENDS Integers, Sequences, FiniteSets, TLC

VARIABLES call, result, pc, path, inds, pass_by, iters, caller_curve, pass_by_obj,
          earlier, default_ans, files, stdout

vars == <<call, result, pc, path, inds, pass_by, iters, caller_curve, pass_by_obj,
          earlier, default_ans, files, stdout>>

-----------------------------------------------------------------------------
(* Bounds of the model *)

\* coordinates of the points are 0..MaxCoord
MaxCoord == 1
\* rows of pts plus rows of nbrs, for dist_pts / match_points
MaxRows == 3
\* the diagonal entries PV[0][0], PV[1][1] of the lattice vectors are 0..MaxPV
MaxPV == 2
\* number of points of a curve handed to order_curve
MaxCurve == 3

\* dimensionalities d of the point sets
DimSet == {1, 2}
\* values of the dim argument
DimArgs == {-1, 0, 1}

Coords == 0..MaxCoord

Points(d) == [1..d -> Coords]

PointSets(d, n) == [1..n -> Points(d)]

\* the shapes (N, M) of a pair of point sets
Shapes == {s \in (1..MaxRows) \X (1..MaxRows) : s[1] + s[2] <= MaxRows}

-----------------------------------------------------------------------------
(* Exact arithmetic on returned floats *)

Abs(x) == IF x < 0 THEN -x ELSE x

Sgn(x) == IF x < 0 THEN -1 ELSE IF x = 0 THEN 0 ELSE 1

\* the float holding the integer k
Float(k) == [sign |-> Sgn(k), radicand |-> k * k]

\* the square root left out
NoSqrt(n) == [sign |-> Sgn(n), radicand |-> n * n]

\* the root of a sum that one more unit was left in by every earlier call
SqrtOfLeftover(n) ==
    [sign |-> Sgn(n + Cardinality(earlier)), radicand |-> n + Cardinality(earlier)]

\* np.sqrt of a non-negative integer
np_sqrt(n) == [sign |-> Sgn(n), radicand |-> n]

\* v ** 2, as an integer
Square(v) == v.radicand

\* order-preserving integer key of a float
Key(v) == v.sign * v.radicand

Ok(v) == [status |-> "ok", value |-> v]

Raise(e) == [status |-> e]

\* a function that falls off its end returns None
ReturnNone == [status |-> "None"]

NRows(a) == Len(a)

\* every array taken to have a single column
NColsOne(a) == 1

\* np.shape(a)[1] of a non-empty 2d array
NCols(a) == Len(a[1])

-----------------------------------------------------------------------------
(* dist_pts *)

\* every displacement taken from the first point of pts
AxisDispFirstPoint(pts, nbrs, dd) ==
    [i \in 1..NRows(pts) |-> [j \in 1..NRows(nbrs) |-> nbrs[j][dd + 1] - pts[1][dd + 1]]]

\* the displacement along the first coordinate, whatever dd
AxisDispFirst(pts, nbrs, dd) ==
    [i \in 1..NRows(pts) |-> [j \in 1..NRows(nbrs) |-> nbrs[j][1] - pts[i][1]]]

\* dist_x[dd][i][j] of the loop at lines 1166-1170: nbrs[j, dd] - pts[i, dd]
\* (dd is 0-based)
AxisDisp(pts, nbrs, dd) ==
    [i \in 1..NRows(pts) |-> [j \in 1..NRows(nbrs) |-> nbrs[j][dd + 1] - pts[i][dd + 1]]]

\* the accumulation  dist += dis ** 2  over dist_x[0 .. n-1]
RECURSIVE SumSquares(_, _, _)
SumSquares(pts, nbrs, n) ==
    IF n = 0
    THEN [i \in 1..NRows(pts) |-> [j \in 1..NRows(nbrs) |-> 0]]
    ELSE LET acc == SumSquares(pts, nbrs, n - 1)
             dis == AxisDisp(pts, nbrs, n - 1)
         IN  [i \in 1..NRows(pts) |->
                [j \in 1..NRows(nbrs) |-> acc[i][j] + dis[i][j] * dis[i][j]]]

\* an integer array as a float array
FloatMatrix(m) == [i \in 1..Len(m) |-> [j \in 1..Len(m[i]) |-> Float(m[i][j])]]

\* np.sqrt of an array, element-wise
SqrtMatrix(m) == [i \in 1..Len(m) |-> [j \in 1..Len(m[i]) |-> np_sqrt(m[i][j])]]

dist_pts(pts, nbrs, dim, square_norm) ==
    IF NCols(pts) # NCols(nbrs)
    THEN Raise("RuntimeError")
    ELSE IF 2 * dim < 1
    THEN \* dim < 0.5: the norm over all coordinates
         LET dist == SumSquares(pts, nbrs, NCols(pts))
         IN  IF ~square_norm
             THEN Ok(SqrtMatrix(dist))
             ELSE Ok(FloatMatrix(dist))
    ELSE \* dim > -0.5: nbrs[:, 1] against pts[:, dim]
         IF NCols(nbrs) < 2 \/ dim >= NCols(pts)
         THEN Raise("IndexError")
         ELSE LET dist_y == [i \in 1..NRows(pts) |->
                               [j \in 1..NRows(nbrs) |-> nbrs[j][2] - pts[i][dim + 1]]]
              IN  IF square_norm
                  THEN Ok(FloatMatrix([i \in 1..NRows(pts) |->
                          [j \in 1..NRows(nbrs) |-> dist_y[i][j] * dist_y[i][j]]]))
                  ELSE Ok(FloatMatrix(dist_y))

-----------------------------------------------------------------------------
(* dist_pts on point sets without rows.  An array of shape (0, d) is the     *)
(* empty tuple and does not hold d, so the arrays come with their np.shape.  *)

\* an empty N x M float array (N = 0 or M = 0)
EmptyMatrix(n, m) ==
    [status |-> "ok", value |-> [i \in 1..n |-> <<>>], shape |-> <<n, m>>]

\* dist_pts(pts, nbrs, dim, square_norm) for arrays of shape shape_pts and
\* shape_nbrs, one of them at least without rows
dist_pts_shaped(pts, shape_pts, nbrs, shape_nbrs, dim, square_norm) ==
    IF shape_pts[2] # shape_nbrs[2]
    THEN Raise("RuntimeError")
    ELSE IF shape_pts[1] > 0 /\ shape_nbrs[1] > 0
    THEN dist_pts(pts, nbrs, dim, square_norm)
    ELSE IF 2 * dim < 1
    THEN \* line 1170, first pass of the loop over the coordinates:
         \* [pts[:, dd].tolist()] * M is [] when M = 0 and np.dstack of no
         \* array raises; with N = 0 and M > 0 it is M empty rows, stacked
         \* to shape (0, M)
         IF shape_nbrs[1] = 0
         THEN Raise("ValueError")
         ELSE EmptyMatrix(shape_pts[1], shape_nbrs[1])
    ELSE \* lines 1182 and 1185: nbrs[:, 1] and pts[:, dim] are taken first,
         \* then the same np.dstack
         IF shape_nbrs[2] < 2 \/ dim >= shape_pts[2]
         THEN Raise("IndexError")
         ELSE IF shape_nbrs[1] = 0
         THEN Raise("ValueError")
         ELSE EmptyMatrix(shape_pts[1], shape_nbrs[1])

\* the shapes (N, M) of a pair of point sets one of which has no rows
EmptyShapes ==
    {s \in (0..MaxRows) \X (0..MaxRows) :
        s[1] + s[2] <= MaxRows /\ (s[1] = 0 \/ s[2] = 0)}

-----------------------------------------------------------------------------
(* np.argmin and Python's min(iterable, key=...) : first occurrence of the   *)
(* minimum                                                                   *)

\* 1-based position of the first minimal element of a non-empty tuple of integers
FirstMin(keys) ==
    CHOOSE i \in 1..Len(keys) :
        /\ \A k \in 1..Len(keys) : keys[i] <= keys[k]
        /\ \A k \in 1..(i - 1) : keys[k] > keys[i]

\* the last, not the first, position of the minimum (0-based)
np_argmin_last(row) ==
    Len(row) - FirstMin([k \in 1..Len(row) |-> Key(row[Len(row) + 1 - k])])

\* np.argmin of a 1d array of floats (0-based)
np_argmin(row) == FirstMin([k \in 1..Len(row) |-> Key(row[k])]) - 1

\* np.argmin(a, axis=0) of an N x M array: one index per column
np_argmin_axis0(a) ==
    [j \in 1..NCols(a) |-> np_argmin([i \in 1..NRows(a) |-> a[i][j]])]

-----------------------------------------------------------------------------
(* match_points *)

match_points(pts, nbrs) ==
    LET dist == dist_pts(pts, nbrs, -1, TRUE)
    IN  IF dist.status # "ok" THEN dist ELSE Ok(np_argmin_axis0(dist.value))

-----------------------------------------------------------------------------
(* dist_pts_along_vec.  The dot product is taken for vec along one axis,     *)
(* where it is one of the two displacements times an integer.                *)

Scale(v, c) == [sign |-> v.sign * Sgn(c), radicand |-> v.radicand * c * c]

\* v * vec[0] + w * vec[1] where vec[0] = 0 or vec[1] = 0
Dot2(v, w, vec) == IF vec[2] = 0 THEN Scale(v, vec[1]) ELSE Scale(w, vec[2])

AxisVecs == {<<1, 0>>, <<0, 1>>, <<-1, 0>>, <<0, -1>>}

dist_pts_along_vec(pts, nbrs, vec) ==
    LET distx == dist_pts(pts, nbrs, 0, FALSE)
        disty == dist_pts(pts, nbrs, 1, FALSE)
    IN  IF distx.status # "ok" THEN distx
        ELSE IF disty.status # "ok" THEN disty
        ELSE Ok([i \in 1..NRows(pts) |-> [j \in 1..NRows(nbrs) |->
                    Dot2(distx.value[i][j], disty.value[i][j], vec)]])

-----------------------------------------------------------------------------
(* dist_pts_periodic *)

\* only the number of lattice vectors looked at
ShapeRows(PV) == <<Len(PV), 2>>

\* np.shape(PV)
Shape(PV) == <<Len(PV), Len(PV[1])>>

\* both shifts by a lattice vector taken with the same sign
CandidatesOneSign(p, q, PV, axis) ==
    LET d0 == q[axis + 1] - p[axis + 1]
    IN  <<d0,
          d0 + PV[1][axis + 1],
          d0 + PV[1][axis + 1],
          d0 + PV[2][axis + 1],
          d0 + PV[2][axis + 1]>>

\* distsx[i, j, 0..4] (axis = 0) or distsy[i, j, 0..4] (axis = 1) for one pair
Candidates(p, q, PV, axis) ==
    LET d0 == q[axis + 1] - p[axis + 1]
    IN  <<d0,
          d0 - PV[1][axis + 1],
          d0 + PV[1][axis + 1],
          d0 - PV[2][axis + 1],
          d0 + PV[2][axis + 1]>>

\* the last, not the first, candidate of minimum modulus
MinImageLast(p, q, PV, axis) ==
    LET c == Candidates(p, q, PV, axis)
    IN  c[6 - FirstMin([k \in 1..5 |-> Abs(c[6 - k])])]

\* distsx[i, j, minpick[i, j]] with minpick = np.argmin(np.abs(distsx), axis=2)
MinImage(p, q, PV, axis) ==
    LET c == Candidates(p, q, PV, axis)
    IN  c[FirstMin([k \in 1..5 |-> Abs(c[k])])]

\* dist_x / dist_y as built by the nested comprehension of lines 1264-1265 and
\* 1288-1289: the OUTER loop runs over j (nbrs), the inner one over i (pts)
PickedDisp(pts, nbrs, PV, axis) ==
    [j \in 1..NRows(nbrs) |-> [i \in 1..NRows(pts) |->
        MinImage(pts[i], nbrs[j], PV, axis)]]

dist_pts_periodic(pts, nbrs, PV, dim, square_norm) ==
    IF Shape(PV) # <<2, 2>>
    THEN Raise("RuntimeError")
    ELSE LET dist_x == PickedDisp(pts, nbrs, PV, 0)
             dist_y == PickedDisp(pts, nbrs, PV, 1)
         IN  IF dim = -1
             THEN LET dist == [a \in 1..Len(dist_x) |-> [b \in 1..Len(dist_x[a]) |->
                                 dist_x[a][b] * dist_x[a][b] + dist_y[a][b] * dist_y[a][b]]]
                  IN  IF ~square_norm
                      THEN Ok(SqrtMatrix(dist))
                      ELSE Ok(FloatMatrix(dist))
             ELSE IF dim = 0 THEN Ok(FloatMatrix(dist_x))
             ELSE IF dim = 1 THEN Ok(FloatMatrix(dist_y))
             ELSE ReturnNone

\* lattice vectors: 2 x 2 with diagonal 0..MaxPV and off-diagonal 0 or 1
Lattices ==
    {<<<<a, b>>, <<c, d>>>> : a \in 0..MaxPV, b \in {0, 1}, c \in {0, 1}, d \in 0..MaxPV}

\* PV of another shape: 1 x 2, 3 x 2 and 2 x 3
BadLattices ==
    {<<<<1, 0>>>>, <<<<1, 0>>, <<0, 1>>, <<1, 1>>>>, <<<<1, 0, 0>>, <<0, 1, 0>>>>}

\* the shapes (N, M) handed to dist_pts_periodic
PeriodicShapes == {<<1, 1>>, <<1, 2>>, <<2, 1>>}

\* the spec's example in units of 1/2: (0.5, 0.5), (9.5, 0.5), PV = [[10, 0], [0, 10]]
ExamplePts == <<<<1, 1>>>>

ExampleNbrs == <<<<19, 1>>>>

ExamplePV == <<<<20, 0>>, <<0, 20>>>>

-----------------------------------------------------------------------------
(* order_curve *)

\* np.sum((a - b) ** 2) for two points
SqDist(a, b) ==
    LET RECURSIVE Acc(_)
        Acc(n) == IF n = 0 THEN 0 ELSE Acc(n - 1) + (a[n] - b[n]) * (a[n] - b[n])
    IN  Acc(Len(a))

\* every element equal to x removed, not only the first
ListRemoveAll(list, x) == SelectSeq(list, LAMBDA y : y # x)

\* list.remove(x): the list without the first element equal to x
ListRemove(list, x) ==
    LET k == CHOOSE i \in 1..Len(list) :
                 list[i] = x /\ \A m \in 1..(i - 1) : list[m] # x
    IN  [i \in 1..(Len(list) - 1) |-> IF i < k THEN list[i] ELSE list[i + 1]]

\* the points taken in the order given, whatever their distance
FirstInPassBy(pb, last) == 0

\* pbind of line 1364: position in pass_by (0-based) of the first point at
\* minimum squared distance from the last point of the path
NearestInPassBy(pb, last) ==
    FirstMin([k \in 1..Len(pb) |-> SqDist(pb[k], last)]) - 1

\* the position counted from 1, not from 0
OriginalIndexOneBased(curve, nearest) ==
    FirstMin([k \in 1..Len(curve) |-> SqDist(curve[k], nearest)])

\* ind of line 1368: first index of curve whose point is closest to `nearest`
OriginalIndex(curve, nearest) ==
    FirstMin([k \in 1..Len(curve) |-> SqDist(curve[k], nearest)]) - 1

Methods == {"nearest", "projected", "other"}

\* pass_by bound to the very object it is handed, no copy made
SameObject(obj) == obj

\* copy.deepcopy(obj) of line 1350: a new object, equal to obj
deepcopy(obj) == "deepcopy"

\* the object the local name curve is bound to after lines 1347-1348: the
\* caller's own list, or the new list made by curve.tolist()
LocalCurve(is_list) == IF is_list THEN "caller" ELSE "tolist"

\* what the caller's object holds after pass_by.remove(...) has left `left`
\* in the object obj that pass_by is bound to
Removed(held, obj, left) == IF obj = "caller" THEN left ELSE held

\* the spec's example: pts = [(0,0), (2,0), (1,0)]
ExampleCurve == <<<<0, 0>>, <<2, 0>>, <<1, 0>>>>

Curves == UNION {PointSets(d, n) : d \in DimSet, n \in 1..MaxCurve}

-----------------------------------------------------------------------------
(* interparticle_separation *)

\* largest nbr_cutoff handed to interparticle_separation
MaxCutoff == 2
\* largest nnbrs handed to interparticle_separation
MaxNnbrs == 2

\* an optional argument: <<>> is None, <<c>> is the number c
None == <<>>

\* the cutoff itself let through:  dist <= nbr_cutoff
WithinCutoffInclusive(v, nbr_cutoff) ==
    Key(v) <= Key(Float(nbr_cutoff)) /\ Key(v) > 0

\* the mask of line 1215: np.logical_and(dist < nbr_cutoff, dist > 0)
WithinCutoff(v, nbr_cutoff) ==
    Key(v) < Key(Float(nbr_cutoff)) /\ Key(v) > 0

\* dist > eps  with eps = 1e-9: the distances of points with integer
\* coordinates are 0 or at least 1
AboveEps(v) == Key(v) > 0

\* a[mask]: the elements of a row picked by a boolean mask, in their order
\* (the mask is given by the set of positions it holds True at)
BooleanIndex(row, mask) ==
    LET RECURSIVE Upto(_)
        Upto(n) == IF n = 0 THEN <<>>
                   ELSE IF n \in mask THEN Append(Upto(n - 1), row[n])
                   ELSE Upto(n - 1)
    IN  Upto(Len(row))

\* a.argsort() of a 1d array of floats (0-based); equal elements keep their
\* order, as numpy's sort of a short array leaves them
argsort(row) ==
    LET n == Len(row)
        Rank(k) == Cardinality({m \in 1..n :
                       \/ Key(row[m]) < Key(row[k])
                       \/ Key(row[m]) = Key(row[k]) /\ m < k})
    IN  [r \in 1..n |-> (CHOOSE k \in 1..n : Rank(k) = r - 1) - 1]

\* seq[0:n]
SliceTo(seq, n) == SubSeq(seq, 1, IF n < Len(seq) THEN n ELSE Len(seq))

\* the row of line 1215 for one point: dist[logical_and(dist < nbr_cutoff, dist > 0)]
CutoffRow(dist, nbr_cutoff) ==
    BooleanIndex(dist, {j \in 1..Len(dist) : WithinCutoff(dist[j], nbr_cutoff)})

\* the row of line 1218 for one point: dist[dist[dist > eps].argsort()[0:nnbrs]].
\* The positions returned by argsort are positions in the FILTERED array and
\* are used to index the unfiltered row dist.
NearestRow(dist, nnbrs) ==
    LET filtered == BooleanIndex(dist, {j \in 1..Len(dist) : AboveEps(dist[j])})
        order == SliceTo(argsort(filtered), nnbrs)
    IN  [k \in 1..Len(order) |-> dist[order[k] + 1]]

interparticle_separation(pts, nbr_cutoff, nnbrs) ==
    LET dists == dist_pts(pts, pts, -1, FALSE)
    IN  IF dists.status # "ok" THEN dists
        ELSE IF nbr_cutoff # None
        THEN Ok([i \in 1..Len(dists.value) |-> CutoffRow(dists.value[i], nbr_cutoff[1])])
        ELSE Ok([i \in 1..Len(dists.value) |-> NearestRow(dists.value[i], nnbrs)])

\* the values of nbr_cutoff: None or a number 0..MaxCutoff
Cutoffs == {<<c>> : c \in 0..MaxCutoff}

\* the spec's example: pts = [(0,0), (1,0), (2,0), (10,10)]
ExampleSeparationPts == <<<<0, 0>>, <<1, 0>>, <<2, 0>>, <<10, 10>>>>

-----------------------------------------------------------------------------
(* match_values *)

\* np.argmin(a, axis=1) of an N x M array: one index per row
np_argmin_axis1(a) == [i \in 1..NRows(a) |-> np_argmin(a[i])]

\* 1d arrays of 1..MaxRows values
Values == UNION {[1..n -> Coords] : n \in 1..MaxRows}

match_values(vals, arr) ==
    LET \* np.ones((len(vals), len(arr))) * arr : arr broadcast along the rows
        arrv == [i \in 1..Len(vals) |-> [j \in 1..Len(arr) |-> arr[j]]]
        \* np.dstack(np.array([vals.tolist()] * M))[0] : entry [i, j] is vals[i]
        stacked == [i \in 1..Len(vals) |-> [j \in 1..Len(arr) |-> vals[i]]]
        dist_x == [i \in 1..Len(vals) |-> [j \in 1..Len(arr) |->
                     arrv[i][j] - stacked[i][j]]]
    IN  Ok(np_argmin_axis1(FloatMatrix([i \in 1..Len(vals) |-> [j \in 1..Len(arr) |->
               Abs(dist_x[i][j])]])))

-----------------------------------------------------------------------------
(* find_peaks, sortrows_2d and first_true *)

\* largest length of the array handed to find_peaks
MaxPeakLen == 5
\* largest npeaks
MaxNpeaks == 2

\* np.where(mask)[0] for a mask over n positions, given by the set of the
\* positions (1-based) it holds True at: these positions, 0-based, ascending
np_where(mask, n) == BooleanIndex([k \in 1..n |-> k - 1], mask)

\* a[-n:] for n > 0
LastN(a, n) == IF n >= Len(a) THEN a ELSE SubSeq(a, Len(a) - n + 1, Len(a))

\* a[::-1]
Reversed(a) == [k \in 1..Len(a) |-> a[Len(a) + 1 - k]]

\* np.diff(arr)
np_diff(arr) == [k \in 1..(Len(arr) - 1) |-> arr[k + 1] - arr[k]]

\* inds of line 789: where the difference turns from > 0 to < 0
PeakInds(arr) ==
    LET d == np_diff(arr)
        m == IF Len(d) = 0 THEN 0 ELSE Len(d) - 1
        found == np_where({k \in 1..m : d[k] > 0 /\ d[k + 1] < 0}, m)
    IN  [r \in 1..Len(found) |-> found[r] + 1]

\* find_peaks(arr, npeaks=npeaks) with thres and thres_curvature left None
find_peaks(arr, npeaks) ==
    LET found == PeakInds(arr)
    IN  IF npeaks # None /\ npeaks[1] > 0
        THEN \* line 794: arr[inds].argsort()[-npeaks:][::-1], positions in
             \* the array arr[inds] of the peak heights
             LET heights == [r \in 1..Len(found) |-> Float(arr[found[r] + 1])]
             IN  Ok(Reversed(LastN(argsort(heights), npeaks[1])))
        ELSE Ok(found)

\* the 1d arrays handed to find_peaks
PeakArrays == UNION {[1..n -> Coords] : n \in 0..MaxPeakLen}

\* np.lexsort((secondary, primary)): the positions (0-based) in the order of
\* primary, then of secondary, equal pairs in their order
np_lexsort(secondary, primary) ==
    LET n == Len(primary)
        Less(m, k) == \/ primary[m] < primary[k]
                      \/ primary[m] = primary[k] /\ secondary[m] < secondary[k]
                      \/ primary[m] = primary[k] /\ secondary[m] = secondary[k] /\ m < k
        Rank(k) == Cardinality({m \in 1..n : Less(m, k)})
    IN  [r \in 1..n |-> (CHOOSE k \in 1..n : Rank(k) = r - 1) - 1]

\* the values of priority: 0, 1 and one that is neither
Priorities == {0, 1, 2}

sortrows_2d(arr, priority, xdescending, ydescending) ==
    IF priority \notin {0, 1}
    THEN Raise("RuntimeError")
    ELSE LET col0 == IF priority = 1 THEN 0 ELSE 1
             col1 == IF priority = 1 THEN 1 ELSE 0
             xascend == IF xdescending THEN -1 ELSE 1
             yascend == IF ydescending THEN -1 ELSE 1
             ind == np_lexsort([k \in 1..Len(arr) |-> xascend * arr[k][col0 + 1]],
                               [k \in 1..Len(arr) |-> yascend * arr[k][col1 + 1]])
         IN  Ok([r \in 1..Len(ind) |-> arr[ind[r] + 1]])

\* the entries of the arrays handed to first_true
Numbers == (-1)..MaxCoord

\* the 2d arrays handed to first_true: 1 or 2 rows of 1..MaxRows numbers
NumberArrays ==
    UNION {[1..r -> [1..c -> Numbers]] : r \in {1, 2}, c \in 1..MaxRows}

\* np.argmax of a row: the first position (0-based) of its largest element
np_argmax(row) == FirstMin([k \in 1..Len(row) |-> -row[k]]) - 1

first_true(arr) ==
    Ok([i \in 1..Len(arr) |->
          LET ele == np_argmax(arr[i])
          IN  IF ele = 0 /\ arr[i][1] = 0 THEN -1 ELSE ele])

-----------------------------------------------------------------------------
(* State machine *)

Idle == [fn |-> "none"]

Init ==
    /\ call = Idle
    /\ result = [status |-> "none"]
    /\ pc = "idle"
    /\ path = <<>>
    /\ inds = <<>>
    /\ pass_by = <<>>
    /\ iters = 0
    /\ caller_curve = <<>>
    /\ pass_by_obj = "none"
    /\ earlier = {}
    /\ default_ans = <<>>
    /\ files = <<>>
    /\ stdout = <<>>

\* nothing outside the toolkit of data_handling.py is touched
Elsewhere == UNCHANGED <<default_ans, files, stdout>>

CurveIdle ==
    /\ UNCHANGED <<pc, path, inds, pass_by, iters, caller_curve, pass_by_obj, earlier>>
    /\ Elsewhere

Call_dist_pts ==
    /\ call = Idle
    /\ \E s \in Shapes, dp \in DimSet, dn \in DimSet :
       \E pts \in PointSets(dp, s[1]), nbrs \in PointSets(dn, s[2]) :
       \E dim \in DimArgs, square_norm \in BOOLEAN :
          /\ call' = [fn |-> "dist_pts", pts |-> pts, nbrs |-> nbrs,
                      dim |-> dim, square_norm |-> square_norm]
          /\ result' = dist_pts(pts, nbrs, dim, square_norm)
    /\ CurveIdle

Call_dist_pts_along_vec ==
    /\ call = Idle
    /\ \E s \in Shapes, dp \in DimSet, dn \in DimSet :
       \E pts \in PointSets(dp, s[1]), nbrs \in PointSets(dn, s[2]) :
       \E vec \in AxisVecs :
          /\ call' = [fn |-> "dist_pts_along_vec", pts |-> pts, nbrs |-> nbrs,
                      vec |-> vec]
          /\ result' = dist_pts_along_vec(pts, nbrs, vec)
    /\ CurveIdle

Call_match_points ==
    /\ call = Idle
    /\ \E s \in Shapes, dp \in DimSet, dn \in DimSet :
       \E pts \in PointSets(dp, s[1]), nbrs \in PointSets(dn, s[2]) :
          /\ call' = [fn |-> "match_points", pts |-> pts, nbrs |-> nbrs]
          /\ result' = match_points(pts, nbrs)
    /\ CurveIdle

\* the distances within one point set
Call_dist_pts_self ==
    /\ call = Idle
    /\ \E d \in DimSet, n \in 1..MaxRows : \E A \in PointSets(d, n) :
       \E dim \in DimArgs, square_norm \in BOOLEAN :
          /\ call' = [fn |-> "dist_pts", pts |-> A, nbrs |-> A,
                      dim |-> dim, square_norm |-> square_norm]
          /\ result' = dist_pts(A, A, dim, square_norm)
    /\ CurveIdle

\* a point set matched against itself
Call_match_points_self ==
    /\ call = Idle
    /\ \E d \in DimSet, n \in 1..MaxRows : \E A \in PointSets(d, n) :
          /\ call' = [fn |-> "match_points", pts |-> A, nbrs |-> A]
          /\ result' = match_points(A, A)
    /\ CurveIdle

\* one call of dist_pts_periodic on the given point sets and lattice
PeriodicCall(pts, nbrs, PV) ==
    \E dim \in DimArgs, square_norm \in BOOLEAN :
       /\ call' = [fn |-> "dist_pts_periodic", pts |-> pts, nbrs |-> nbrs,
                   PV |-> PV, dim |-> dim, square_norm |-> square_norm]
       /\ result' = dist_pts_periodic(pts, nbrs, PV, dim, square_norm)

Call_dist_pts_periodic ==
    /\ call = Idle
    /\ \/ \E s \in PeriodicShapes, PV \in Lattices \cup BadLattices :
          \E pts \in PointSets(2, s[1]), nbrs \in PointSets(2, s[2]) :
             PeriodicCall(pts, nbrs, PV)
       \/ PeriodicCall(ExamplePts, ExampleNbrs, ExamplePV)
    /\ CurveIdle

\* order_curve is called: its arguments are drawn, nothing is computed yet
CurveInit ==
    /\ \E curve \in Curves \cup {ExampleCurve}, method \in Methods, is_list \in BOOLEAN :
       \E ind0 \in 0..(Len(curve) - 1) :
          /\ call = [fn |-> "order_curve", curve |-> curve, ind0 |-> ind0,
                     method |-> method, is_list |-> is_list]
          /\ caller_curve = curve
    /\ result = [status |-> "none"]
    /\ pc = "start"
    /\ path = <<>>
    /\ inds = <<>>
    /\ pass_by = <<>>
    /\ iters = 0
    /\ pass_by_obj = "none"
    /\ earlier = {}
    /\ default_ans = <<>>
    /\ files = <<>>
    /\ stdout = <<>>

\* order_curve up to the loop: lines 1347-1355
Call_order_curve ==
    /\ pc = "start"
    /\ path' = <<call.curve[call.ind0 + 1]>>
    /\ inds' = <<call.ind0>>
    /\ pass_by_obj' = deepcopy(LocalCurve(call.is_list))
    /\ pass_by' = ListRemove(call.curve, call.curve[call.ind0 + 1])
    /\ caller_curve' = Removed(caller_curve, pass_by_obj', pass_by')
    /\ pc' = "loop"
    /\ UNCHANGED <<call, result, iters, earlier>>
    /\ Elsewhere

\* one iteration of  while pass_by  with method == 'nearest': lines 1356-1376
Step_order_curve ==
    /\ pc = "loop"
    /\ pass_by # <<>>
    /\ call.method = "nearest"
    /\ LET pbind == NearestInPassBy(pass_by, path[Len(path)])
           nearest == pass_by[pbind + 1]
           ind == OriginalIndex(call.curve, nearest)
       IN  /\ path' = Append(path, nearest)
           /\ inds' = Append(inds, ind)
           /\ pass_by' = ListRemove(pass_by, nearest)
    /\ caller_curve' = Removed(caller_curve, pass_by_obj, pass_by')
    /\ iters' = iters + 1
    /\ UNCHANGED <<call, result, pc, pass_by_obj, earlier>>
    /\ Elsewhere

\* an iteration with any other method raises: lines 1369-1372
Raise_order_curve ==
    /\ pc = "loop"
    /\ pass_by # <<>>
    /\ call.method # "nearest"
    /\ pc' = "error"
    /\ result' = Raise("RuntimeError")
    /\ UNCHANGED <<call, path, inds, pass_by, iters, caller_curve, pass_by_obj, earlier>>
    /\ Elsewhere

\* the loop ends and (path, inds) is returned: line 1379
Return_order_curve ==
    /\ pc = "loop"
    /\ pass_by = <<>>
    /\ pc' = "done"
    /\ result' = Ok(<<path, inds>>)
    /\ UNCHANGED <<call, path, inds, pass_by, iters, caller_curve, pass_by_obj, earlier>>
    /\ Elsewhere

\* PairwiseDistance and NeighborMatcher
Next ==
    \/ Call_dist_pts
    \/ Call_dist_pts_along_vec
    \/ Call_match_points
    \/ Call_match_points_self
    \/ Call_dist_pts_self

Spec == Init /\ [][Next]_vars

\* PeriodicPairwiseDistance
PeriodicNext == Call_dist_pts_periodic

PeriodicSpec == Init /\ [][PeriodicNext]_vars

\* CurveOrderer
CurveNext ==
    \/ Call_order_curve
    \/ Step_order_curve
    \/ Raise_order_curve
    \/ Return_order_curve

CurveSpec == CurveInit /\ [][CurveNext]_vars

\* a started call of order_curve is run to its end
CurveFairSpec ==
    CurveSpec /\ WF_vars(Step_order_curve \/ Raise_order_curve \/ Return_order_curve)

\* one call of interparticle_separation on the given points
SeparationCall(pts, nbr_cutoff, nnbrs) ==
    /\ call' = [fn |-> "interparticle_separation", pts |-> pts,
                nbr_cutoff |-> nbr_cutoff, nnbrs |-> nnbrs]
    /\ result' = interparticle_separation(pts, nbr_cutoff, nnbrs)

\* nnbrs is left at its default 1 when nbr_cutoff is given
Call_interparticle_separation ==
    /\ call = Idle
    /\ \/ \E d \in DimSet, n \in 1..MaxRows : \E pts \in PointSets(d, n) :
             \/ \E nbr_cutoff \in Cutoffs : SeparationCall(pts, nbr_cutoff, 1)
             \/ \E nnbrs \in 0..MaxNnbrs : SeparationCall(pts, None, nnbrs)
       \/ SeparationCall(ExampleSeparationPts, None, 2)
    /\ CurveIdle

Call_match_values ==
    /\ call = Idle
    /\ \E vals \in Values, arr \in Values :
          /\ call' = [fn |-> "match_values", vals |-> vals, arr |-> arr]
          /\ result' = match_values(vals, arr)
    /\ CurveIdle

\* the neighbour queries and the 1d matcher
SeparationNext ==
    \/ Call_interparticle_separation
    \/ Call_match_values

SeparationSpec == Init /\ [][SeparationNext]_vars

Call_dist_pts_empty ==
    /\ call = Idle
    /\ \E s \in EmptyShapes, dp \in DimSet, dn \in DimSet :
       \E pts \in PointSets(dp, s[1]), nbrs \in PointSets(dn, s[2]) :
       \E dim \in DimArgs, square_norm \in BOOLEAN :
          /\ call' = [fn |-> "dist_pts", pts |-> pts, nbrs |-> nbrs,
                      dim |-> dim, square_norm |-> square_norm,
                      shape_pts |-> <<s[1], dp>>, shape_nbrs |-> <<s[2], dn>>]
          /\ result' = dist_pts_shaped(pts, <<s[1], dp>>, nbrs, <<s[2], dn>>,
                                       dim, square_norm)
    /\ CurveIdle

\* PairwiseDistance on empty point sets
EmptyNext == Call_dist_pts_empty

EmptySpec == Init /\ [][EmptyNext]_vars

-----------------------------------------------------------------------------
(* A session: the core functions called one after the other, in any order *)

\* number of completed calls a session keeps for comparison
MaxEarlier == 2

\* the point sets, 1d arrays and lattice handed to the calls of a session
SessionSets == {<<<<0, 0>>, <<1, 0>>>>, <<<<0, 1>>, <<0, 0>>>>}

SessionValues == {<<0, 1>>, <<1, 1>>}

SessionPV == <<<<2, 0>>, <<0, 2>>>>

\* a call of one of the functions that return in one step, with the other
\* arguments left at their defaults
Session_call ==
    /\ call.fn = "none"
    /\ \/ \E A \in SessionSets, B \in SessionSets :
          \/ /\ call' = [fn |-> "dist_pts", pts |-> A, nbrs |-> B,
                         dim |-> -1, square_norm |-> FALSE]
             /\ result' = dist_pts(A, B, -1, FALSE)
          \/ /\ call' = [fn |-> "dist_pts_periodic", pts |-> A, nbrs |-> B,
                         PV |-> SessionPV, dim |-> -1, square_norm |-> FALSE]
             /\ result' = dist_pts_periodic(A, B, SessionPV, -1, FALSE)
          \/ /\ call' = [fn |-> "match_points", pts |-> A, nbrs |-> B]
             /\ result' = match_points(A, B)
       \/ \E vals \in SessionValues, arr \in SessionValues :
             /\ call' = [fn |-> "match_values", vals |-> vals, arr |-> arr]
             /\ result' = match_values(vals, arr)
       \/ \E A \in SessionSets, nbr_cutoff \in {None, <<2>>} :
             SeparationCall(A, nbr_cutoff, 1)
    /\ CurveIdle

\* order_curve is entered with fresh locals
Session_order_curve ==
    /\ call.fn = "none"
    /\ \E A \in SessionSets, ind0 \in {0, 1} :
          /\ call' = [fn |-> "order_curve", curve |-> A, ind0 |-> ind0,
                      method |-> "nearest", is_list |-> TRUE]
          /\ caller_curve' = A
    /\ pc' = "start"
    /\ UNCHANGED <<result, path, inds, pass_by, iters, pass_by_obj, earlier>>
    /\ Elsewhere

\* the call is over: its locals are gone, and the session keeps what it
\* returned (up to MaxEarlier calls are kept)
Session_return ==
    /\ call.fn # "none"
    /\ pc \in {"idle", "done", "error"}
    /\ LET kept == earlier \cup {[call |-> call, result |-> result]}
       IN  earlier' = IF Cardinality(kept) <= MaxEarlier THEN kept ELSE earlier
    /\ call' = Idle
    /\ result' = [status |-> "none"]
    /\ pc' = "idle"
    /\ path' = <<>>
    /\ inds' = <<>>
    /\ pass_by' = <<>>
    /\ iters' = 0
    /\ caller_curve' = <<>>
    /\ pass_by_obj' = "none"
    /\ Elsewhere

SessionNext ==
    \/ Session_call
    \/ Session_order_curve
    \/ Call_order_curve
    \/ Step_order_curve
    \/ Return_order_curve
    \/ Session_return

SessionSpec == Init /\ [][SessionNext]_vars

-----------------------------------------------------------------------------
(* batch_reindex_files.py.  A string is the tuple of its character codes;   *)
(* a file is named by the directory it is in and the string that stands in  *)
(* its name at the place of 'wildcard'; files maps the paths of the         *)
(* existing files to their contents.                                         *)

\* largest number of files of the data directory matching the pattern
MaxFiles == 2
\* the shifts are -MaxShift..MaxShift
MaxShift == 2

\* ord('-'), ord('.'), ord('0'), ord('_')
OrdMinus == 45

OrdDot == 46

OrdZero == 48

OrdUnderscore == 95

\* str(n) of an integer n >= 0
RECURSIVE StrNat(_)
StrNat(n) ==
    IF n < 10 THEN <<OrdZero + n>>
    ELSE StrNat(n \div 10) \o <<OrdZero + (n % 10)>>

\* str(n)
Str(n) == IF n < 0 THEN <<OrdMinus>> \o StrNat(-n) ELSE StrNat(n)

\* int(s) of a string of digits
RECURSIVE int(_)
int(s) ==
    IF Len(s) = 0 THEN 0
    ELSE 10 * int(SubSeq(s, 1, Len(s) - 1)) + (s[Len(s)] - OrdZero)

\* s.zfill(width): zeros put in front, after a leading sign, up to width
zfill(s, width) ==
    IF Len(s) >= width THEN s
    ELSE LET zeros == [k \in 1..(width - Len(s)) |-> OrdZero]
         IN  IF s[1] = OrdMinus THEN <<OrdMinus>> \o zeros \o Tail(s)
             ELSE zeros \o s

\* a < b for two strings
StrLess(a, b) ==
    \E k \in 1..(Len(a) + 1) :
        /\ \A m \in 1..(k - 1) : m <= Len(b) /\ a[m] = b[m]
        /\ \/ k = Len(a) + 1 /\ Len(b) >= k
           \/ k <= Len(a) /\ k <= Len(b) /\ a[k] < b[k]

\* sorted(glob.glob(searchstr)) of lines 31-33: the strings found in place of
\* the wildcard, in the order of the file names, which continue with the
\* first character `after` of fn_part1
SortedGlob(listing, after) ==
    LET found == {p[2] : p \in {q \in DOMAIN listing : q[1] = "datadir"}}
        Before(s) == {t \in found : StrLess(t \o <<after>>, s \o <<after>>)}
    IN  [r \in 1..Cardinality(found) |->
            CHOOSE s \in found : Cardinality(Before(s)) = r - 1]

\* every target taken to be free
NeverExists(fs, p) == FALSE

\* os.path.exists(p)
os_path_exists(fs, p) == p \in DOMAIN fs

\* cp src dst : dst is created, or overwritten when it exists
cp(fs, src, dst) ==
    [p \in DOMAIN fs \cup {dst} |-> IF p = dst THEN fs[src] ELSE fs[p]]

\* the strings standing for the wildcard: "0", "1", "2", "9", "01", "09", "10"
IndexStrings ==
    {<<48>>, <<49>>, <<50>>, <<57>>, <<48, 49>>, <<48, 57>>, <<49, 48>>}

\* a directory holding the files named by the strings of S: each file holds
\* its own content
Listing(dir, S) == [p \in {<<dir, s>> : s \in S} |-> p]

\* the directories as the script starts: 1..MaxFiles files in datadir and,
\* if outdir is another directory, at most one file in it
Listings ==
    {Listing("datadir", S) : S \in {T \in SUBSET IndexStrings :
                                       Cardinality(T) \in 1..MaxFiles}}

OutListings ==
    {Listing("outdir", S) : S \in {T \in SUBSET IndexStrings : Cardinality(T) <= 1}}

\* f and g put together, for functions of disjoint domains
Both(f, g) == [p \in DOMAIN f \cup DOMAIN g |-> IF p \in DOMAIN f THEN f[p] ELSE g[p]]

\* the script is started: outdir is datadir itself (the files are reindexed in
\* place) or another directory
ReindexInit ==
    /\ \E data \in Listings, out \in OutListings, outdir \in {"datadir", "outdir"},
          shift \in (-MaxShift)..MaxShift, after \in {OrdDot, OrdUnderscore} :
          /\ files = (IF outdir = "datadir" THEN data ELSE Both(data, out))
          /\ call = [fn |-> "batch_reindex_files", outdir |-> outdir, shift |-> shift,
                     fns |-> SortedGlob(data, after), before |-> files]
    /\ result = [status |-> "none"]
    /\ pc = "loop"
    /\ iters = 0
    /\ path = <<>>
    /\ inds = <<>>
    /\ pass_by = <<>>
    /\ caller_curve = <<>>
    /\ pass_by_obj = "none"
    /\ earlier = {}
    /\ default_ans = <<>>
    /\ stdout = <<>>

ReindexIdle ==
    UNCHANGED <<path, inds, pass_by, caller_curve, pass_by_obj, earlier, default_ans>>

\* newfn of line 55 for the file numbered iters of fns, as a path
NewFn ==
    LET indexstr == call.fns[iters + 1]
    IN  <<call.outdir, zfill(Str(int(indexstr) + call.shift), Len(indexstr))>>

\* one pass of the loop of lines 50-63 that copies the file or leaves it
Copy_reindex ==
    /\ pc = "loop"
    /\ iters < Len(call.fns)
    /\ LET fn == <<"datadir", call.fns[iters + 1]>>
       IN  IF fn # NewFn
           THEN /\ ~os_path_exists(files, NewFn)
                /\ files' = cp(files, fn, NewFn)
                /\ stdout' = Append(stdout, <<fn, NewFn>>)
           ELSE UNCHANGED <<files, stdout>>
    /\ iters' = iters + 1
    /\ UNCHANGED <<call, result, pc>>
    /\ ReindexIdle

\* the pass that finds the new name taken: line 59
Raise_reindex ==
    /\ pc = "loop"
    /\ iters < Len(call.fns)
    /\ <<"datadir", call.fns[iters + 1]>> # NewFn
    /\ os_path_exists(files, NewFn)
    /\ pc' = "error"
    /\ result' = Raise("RuntimeError")
    /\ UNCHANGED <<call, iters, files, stdout>>
    /\ ReindexIdle

\* the loop is over
End_reindex ==
    /\ pc = "loop"
    /\ iters = Len(call.fns)
    /\ pc' = "done"
    /\ result' = ReturnNone
    /\ UNCHANGED <<call, iters, files, stdout>>
    /\ ReindexIdle

ReindexNext ==
    \/ Copy_reindex
    \/ Raise_reindex
    \/ End_reindex

ReindexSpec == ReindexInit /\ [][ReindexNext]_vars

-----------------------------------------------------------------------------
(* find_missing_files.py *)

\* --start is 0..MaxStart and --end is 0..MaxEnd
MaxStart == 1

MaxEnd == 3

\* the values of --padding
Paddings == {0, 1, 2}

\* the script is started on a directory of at most MaxFiles files
FindInit ==
    /\ \E S \in {T \in SUBSET IndexStrings : Cardinality(T) <= MaxFiles},
          start \in 0..MaxStart, end \in 0..MaxEnd, padding \in Paddings :
          /\ files = Listing("datadir", S)
          /\ call = [fn |-> "find_missing_files", start |-> start, end |-> end,
                     padding |-> padding]
    /\ result = [status |-> "none"]
    /\ pc = "start"
    /\ iters = 0
    /\ path = <<>>
    /\ inds = <<>>
    /\ pass_by = <<>>
    /\ caller_curve = <<>>
    /\ pass_by_obj = "none"
    /\ earlier = {}
    /\ default_ans = <<>>
    /\ stdout = <<>>

FindIdle ==
    UNCHANGED <<call, files, path, inds, pass_by, caller_curve, pass_by_obj,
                earlier, default_ans>>

\* np.arange(start, end)
np_arange(start, end) == [k \in 1..(IF end > start THEN end - start ELSE 0) |-> start + k - 1]

\* the indices the loop of line 50 runs over
Sought == np_arange(call.start, call.end)

\* found_some: a line 'Did not find: ...' has been printed
found_some == \E k \in 1..Len(stdout) : stdout[k].line = "Did not find: "

\* lines 35-41: the files matching the pattern are looked up first
Glob_find ==
    /\ pc = "start"
    /\ IF DOMAIN files = {}
       THEN pc' = "error" /\ result' = Raise("RuntimeError")
       ELSE pc' = "loop" /\ UNCHANGED result
    /\ UNCHANGED <<iters, stdout>>
    /\ FindIdle

\* one pass of the loop of lines 50-55
Seek_find ==
    /\ pc = "loop"
    /\ iters < Len(Sought)
    /\ LET s == zfill(Str(Sought[iters + 1]), call.padding)
       IN  stdout' = IF ~os_path_exists(files, <<"datadir", s>>)
                     THEN Append(stdout, [line |-> "Did not find: ", index |-> s])
                     ELSE stdout
    /\ iters' = iters + 1
    /\ UNCHANGED <<pc, result>>
    /\ FindIdle

\* lines 57-58
End_find ==
    /\ pc = "loop"
    /\ iters = Len(Sought)
    /\ stdout' = IF ~found_some
                 THEN Append(stdout, [line |-> "Did not find any missing files!",
                                      index |-> <<>>])
                 ELSE stdout
    /\ pc' = "done"
    /\ result' = ReturnNone
    /\ UNCHANGED iters
    /\ FindIdle

FindNext ==
    \/ Glob_find
    \/ Seek_find
    \/ End_find

FindSpec == FindInit /\ [][FindNext]_vars

Call_find_peaks ==
    /\ call = Idle
    /\ \E arr \in PeakArrays, npeaks \in {None} \cup {<<n>> : n \in 0..MaxNpeaks} :
          /\ call' = [fn |-> "find_peaks", arr |-> arr, npeaks |-> npeaks]
          /\ result' = find_peaks(arr, npeaks)
    /\ CurveIdle

Call_sortrows_2d ==
    /\ call = Idle
    /\ \E n \in 1..MaxRows : \E arr \in PointSets(2, n) :
       \E priority \in Priorities, xdescending \in BOOLEAN, ydescending \in BOOLEAN :
          /\ call' = [fn |-> "sortrows_2d", arr |-> arr, priority |-> priority,
                      xdescending |-> xdescending, ydescending |-> ydescending]
          /\ result' = sortrows_2d(arr, priority, xdescending, ydescending)
    /\ CurveIdle

Call_first_true ==
    /\ call = Idle
    /\ \E arr \in NumberArrays :
          /\ call' = [fn |-> "first_true", arr |-> arr]
          /\ result' = first_true(arr)
    /\ CurveIdle

\* the array helpers
ArrayNext ==
    \/ Call_find_peaks
    \/ Call_sortrows_2d
    \/ Call_first_true

ArraySpec == Init /\ [][ArrayNext]_vars

-----------------------------------------------------------------------------
(* h5py_wrapper: write_rec, load_dict and example_2 *)

\* An HDF5 file is its groups (each the tuple of names on the way from the
\* root, the root group being <<>>), the attributes of the groups
\* (<<group, key>> to value) and the datasets (their place to their content).
\* A value handed to write_rec is a scalar, an ndarray or a dict; a value
\* held by a loaded dictionary is a scalar, an ndarray or a reference to a
\* Python dict object.  The only dict object load_dict ever fills when it is
\* called without ans is the one made for the default ans={} when the function
\* was defined, "ans"; default_ans holds what that object contains.

\* how many calls a run of the interpreter makes before its last one
MaxLoads == 1

\* default of tmax, line 84
tmax == 3

Scalar(n) == [kind |-> "scalar", v |-> n]

Ndarray(n) == [kind |-> "ndarray", v |-> n]

Dict(d) == [kind |-> "dict", v |-> d]

Ref(obj) == [kind |-> "ref", id |-> obj]

EmptyMap == [x \in {} |-> 0]

EmptyFile == [groups |-> {<<>>}, attrs |-> EmptyMap, dsets |-> EmptyMap]

\* d[key] = value
Put(d, key, value) ==
    [k \in DOMAIN d \cup {key} |-> IF k = key THEN value ELSE d[k]]

RECURSIVE write_rec(_, _, _, _, _, _)
RECURSIVE write_keys(_, _, _, _, _)

\* write_rec(f, ddict, key=key, grp=grp, group=group, t=t); group is None or
\* <<the tuple of names of the group>>
write_rec(f, ddict, key, grp, group, t) ==
    IF ddict.kind = "dict"
    THEN LET here == IF group = None THEN <<key>> ELSE Append(group[1], key)
             made == [f EXCEPT !.groups = @ \cup {here}]
         IN  IF t < tmax
             THEN write_keys(made, ddict.v, DOMAIN ddict.v, here, t + 1)
             ELSE made
    ELSE IF ddict.kind = "ndarray"
    THEN LET dataname == IF group # None THEN Append(group[1], key) ELSE <<key>>
         IN  [f EXCEPT !.dsets = Put(@, dataname, ddict.v)]
    ELSE [f EXCEPT !.attrs = Put(@, <<grp, key>>, ddict.v)]

\* the loop of lines 114-116 over the keys left
write_keys(f, d, left, here, t) ==
    IF left = {}
    THEN f
    ELSE LET key == CHOOSE k \in left : TRUE
         IN  write_keys(write_rec(f, d[key], key, here, <<here>>, t),
                        d, left \ {key}, here, t)

\* the names used, in the order in which h5py walks the members of a group
NameOrder == <<"Data", "U", "param", "sub">>

RECURSIVE load_dict(_, _, _)
RECURSIVE load_items(_, _, _, _)

\* load_dict(data, ans=ans) for the group data of the file f, every call of
\* the recursion filling the same dict object: what that object holds at the
\* return, given what it held before (ans)
load_dict(f, data, ans) ==
    LET keys == {ak[2] : ak \in {x \in DOMAIN f.attrs : x[1] = data}}
        after_attrs == [k \in DOMAIN ans \cup keys |->
                           IF k \in keys THEN Scalar(f.attrs[<<data, k>>])
                           ELSE ans[k]]
    IN  load_items(f, data, after_attrs, 1)

\* the loop of lines 201-207 from the i-th name on; item.value is the content
\* of a dataset
load_items(f, data, ans, i) ==
    IF i > Len(NameOrder)
    THEN ans
    ELSE LET key == NameOrder[i]
             item == Append(data, key)
         IN  IF item \in DOMAIN f.dsets
             THEN load_items(f, data, Put(ans, key, Ndarray(f.dsets[item])), i + 1)
             ELSE IF item \in f.groups
             THEN load_items(f, data,
                             Put(load_dict(f, item, ans), key, Ref("ans")), i + 1)
             ELSE load_items(f, data, ans, i + 1)

\* the values of the scalars
LeafValues == {0, 1}

\* the content of np.zeros(10)
Zeros == "zeros"

\* dictionaries of a scalar 'param' and an array 'Data'
FlatDicts ==
    {[param |-> Scalar(p)] : p \in LeafValues}
    \cup {[Data |-> Ndarray(Zeros)]}
    \cup {[Data |-> Ndarray(Zeros), param |-> Scalar(p)] : p \in LeafValues}

\* the same, and with a dictionary 'sub' nested in them
Dicts ==
    FlatDicts
    \cup {[sub |-> Dict(s)] : s \in FlatDicts}
    \cup {Put(d, "sub", Dict(s)) : d \in FlatDicts, s \in FlatDicts}

H5Names == {"a.h5", "b.h5"}

H5Idle ==
    UNCHANGED <<pc, path, inds, pass_by, iters, caller_curve, pass_by_obj, stdout>>

\* what the caller of the call that has returned holds, kept with what the
\* returned dictionary contained at the return
Kept ==
    IF call.fn = "none"
    THEN earlier
    ELSE earlier \cup {[call |-> call, result |-> result, seen |-> default_ans]}

\* example_2(filename, ddict): create, write_rec(f, ddict, key='U') if the
\* file was created, h5open, load_dict(f)
Call_example_2 ==
    /\ Cardinality(earlier) < MaxLoads
    /\ \E filename \in H5Names, ddict \in Dicts :
          LET b == filename \notin DOMAIN files
              f == IF b
                   THEN write_rec(EmptyFile, Dict(ddict), "U", None, None, 0)
                   ELSE files[filename]
          IN  /\ call' = [fn |-> "example_2", filename |-> filename,
                          ddict |-> ddict, b |-> b]
              /\ files' = Put(files, filename, f)
              /\ default_ans' = load_dict(f, <<>>, default_ans)
              /\ result' = Ok(Ref("ans"))
    /\ earlier' = Kept
    /\ H5Idle

\* load_dict(h5open(filename)) of a file that exists
Call_load_dict ==
    /\ Cardinality(earlier) < MaxLoads
    /\ \E filename \in DOMAIN files :
          /\ call' = [fn |-> "load_dict", filename |-> filename]
          /\ default_ans' = load_dict(files[filename], <<>>, default_ans)
          /\ result' = Ok(Ref("ans"))
    /\ earlier' = Kept
    /\ UNCHANGED files
    /\ H5Idle

H5Next ==
    \/ Call_example_2
    \/ Call_load_dict

H5Spec == Init /\ [][H5Next]_vars

-----------------------------------------------------------------------------
(* Properties of PairwiseDistance and NeighborMatcher (Spec) *)

\* the call returned (raised nothing)
Returned(fn) == call.fn = fn /\ result.status = "ok"

N == NRows(call.pts)

M == NRows(call.nbrs)

\* sum over all coordinates k of (q[k] - p[k])^2
RECURSIVE SumOverCoords(_, _, _)
SumOverCoords(p, q, k) ==
    IF k = 0 THEN 0 ELSE SumOverCoords(p, q, k - 1) + (q[k] - p[k]) * (q[k] - p[k])

SquaredDistance(p, q) == SumOverCoords(p, q, Len(p))

IsMatrix(a, n, m) == Len(a) = n /\ \A i \in 1..n : Len(a[i]) = m

\* C1: dist_pts(pts, nbrs, square_norm=True) is the N x M matrix of the sums over
\* all d coordinates of (nbrs[j][k] - pts[i][k])^2, and the default
\* dist_pts(pts, nbrs) is its element-wise square root: non-negative, and its
\* square is the squared-mode result.
C1_SquaredAndRoot ==
    (Returned("dist_pts") /\ call.dim = -1) =>
        /\ IsMatrix(result.value, N, M)
        /\ \A i \in 1..N, j \in 1..M :
              LET sq == SquaredDistance(call.pts[i], call.nbrs[j])
                  e == result.value[i][j]
              IN  IF call.square_norm
                  THEN e = Float(sq)
                  ELSE /\ e.sign >= 0
                       /\ Square(e) = sq
                       /\ Float(Square(e)) =
                              dist_pts(call.pts, call.nbrs, -1, TRUE).value[i][j]

\* a default call on 1 x d and 2 x d point sets with an irrational distance
C1_Witness ==
    /\ Returned("dist_pts")
    /\ call.dim = -1
    /\ ~call.square_norm
    /\ N = 1
    /\ M = 2
    /\ NCols(call.pts) = 2
    /\ result.value[1][2] = [sign |-> 1, radicand |-> 2]

\* C2: dist_pts(pts, nbrs, dim=k) is the signed displacement
\* nbrs[j][k] - pts[i][k] for k = 0 as for k = 1, and dist_pts_along_vec is the
\* projection of the displacement vector on vec.
C2_SignedDisplacement ==
    /\ (/\ call.fn = "dist_pts"
        /\ call.dim \in {0, 1}
        /\ ~call.square_norm
        /\ NCols(call.pts) = 2
        /\ NCols(call.nbrs) = 2) =>
          /\ result.status = "ok"
          /\ IsMatrix(result.value, N, M)
          /\ \A i \in 1..N, j \in 1..M :
                result.value[i][j] =
                    Float(call.nbrs[j][call.dim + 1] - call.pts[i][call.dim + 1])
    /\ (/\ call.fn = "dist_pts_along_vec"
        /\ NCols(call.pts) = 2
        /\ NCols(call.nbrs) = 2) =>
          /\ result.status = "ok"
          /\ \A i \in 1..N, j \in 1..M :
                result.value[i][j] =
                    Float((call.nbrs[j][1] - call.pts[i][1]) * call.vec[1]
                          + (call.nbrs[j][2] - call.pts[i][2]) * call.vec[2])

\* the lowest index j (0-based) into nbrs minimising the squared distance to p
LowestNearest(p, nbrs) ==
    CHOOSE j \in 0..(Len(nbrs) - 1) :
        /\ \A k \in 0..(Len(nbrs) - 1) :
              SquaredDistance(p, nbrs[j + 1]) <= SquaredDistance(p, nbrs[k + 1])
        /\ \A k \in 0..(j - 1) :
              SquaredDistance(p, nbrs[k + 1]) > SquaredDistance(p, nbrs[j + 1])

\* C3: match_points(pts, nbrs) returns one index per point of pts, the i-th being
\* the lowest index into nbrs of a point nearest to pts[i].
C3_OneIndexPerPoint ==
    Returned("match_points") =>
        /\ Len(result.value) = N
        /\ \A i \in 1..N : result.value[i] = LowestNearest(call.pts[i], call.nbrs)
\* C15: dist_pts fails with an error, before computing any distance, whenever
\* pts and nbrs have a different number of coordinates per point; match_points,
\* which delegates to dist_pts, fails in the same way.  The error is the
\* RuntimeError of line 1162 and the call has no value.
C15_DimensionMismatch ==
    (/\ call.fn \in {"dist_pts", "match_points"}
     /\ Len(call.pts[1]) # Len(call.nbrs[1])) =>
        result = [status |-> "RuntimeError"]

\* match_points was handed 1d points and 2d neighbours and failed as dist_pts
\* does, whatever dim and square_norm dist_pts itself is handed
C15_Witness ==
    /\ call.fn = "match_points"
    /\ Len(call.pts[1]) = 1
    /\ Len(call.nbrs[1]) = 2
    /\ result.status = "RuntimeError"

\* C17: dist_pts given an empty point set on either side (N = 0 rows of pts or
\* M = 0 rows of nbrs, with matching dimensionality) returns an empty matrix
\* of shape N x M and raises no error (dim left at its default).
C17_EmptyInputs ==
    (/\ call.fn = "dist_pts"
     /\ (N = 0 \/ M = 0)
     /\ call.shape_pts[2] = call.shape_nbrs[2]
     /\ call.dim = -1) =>
        /\ result.status = "ok"
        /\ result.shape = <<N, M>>
        /\ Len(result.value) = N
        /\ \A i \in 1..N : result.value[i] = <<>>

-----------------------------------------------------------------------------
(* Properties of PeriodicPairwiseDistance (PeriodicSpec) *)

\* the five displacements along axis a (0-based) in the order of the claim
FiveDisplacements(p, q, PV, a) ==
    LET d0 == q[a + 1] - p[a + 1]
    IN  <<d0, d0 - PV[1][a + 1], d0 + PV[1][a + 1], d0 - PV[2][a + 1], d0 + PV[2][a + 1]>>

\* the earliest displacement of minimum absolute value
EarliestSmallest(c) ==
    LET k == CHOOSE k \in 1..Len(c) :
                 /\ \A m \in 1..Len(c) : Abs(c[k]) <= Abs(c[m])
                 /\ \A m \in 1..(k - 1) : Abs(c[m]) # Abs(c[k])
    IN  c[k]

\* what dist_pts_periodic is to return for the pair (p, q)
PeriodicEntry(p, q, PV, dim, square_norm) ==
    LET sx == EarliestSmallest(FiveDisplacements(p, q, PV, 0))
        sy == EarliestSmallest(FiveDisplacements(p, q, PV, 1))
    IN  IF dim = 0 THEN Float(sx)
        ELSE IF dim = 1 THEN Float(sy)
        ELSE IF square_norm THEN Float(sx * sx + sy * sy)
        ELSE [sign |-> Sgn(sx * sx + sy * sy), radicand |-> sx * sx + sy * sy]

\* C4: dist_pts_periodic(pts, nbrs, PV) is an N x M matrix whose entry (i, j) is
\* the periodic distance (or per-axis displacement) between pts[i] and nbrs[j].
C4_PeriodicShape ==
    Returned("dist_pts_periodic") =>
        /\ IsMatrix(result.value, N, M)
        /\ \A i \in 1..N, j \in 1..M :
              result.value[i][j] =
                  PeriodicEntry(call.pts[i], call.nbrs[j], call.PV, call.dim,
                                call.square_norm)

\* the entry dist_pts_periodic returned for the pair (pts[i], nbrs[j]): the
\* returned array is indexed by the point of nbrs first
ReturnedFor(i, j) == result.value[j][i]

\* C5: for each pair and each axis the displacement selected is the earliest of
\* minimum absolute value among d0, d0 - PV[0][a], d0 + PV[0][a], d0 - PV[1][a],
\* d0 + PV[1][a], the unshifted d0 on a tie with it, and the full distance is
\* the Euclidean norm of the two selected displacements.
C5_MinimumImage ==
    Returned("dist_pts_periodic") =>
        \A i \in 1..N, j \in 1..M :
            /\ ReturnedFor(i, j) =
                   PeriodicEntry(call.pts[i], call.nbrs[j], call.PV, call.dim,
                                 call.square_norm)
            /\ \A a \in {0, 1} :
                  LET c == FiveDisplacements(call.pts[i], call.nbrs[j], call.PV, a)
                  IN  (call.dim = a /\ \A m \in 1..5 : Abs(c[1]) <= Abs(c[m]))
                          => ReturnedFor(i, j) = Float(c[1])

\* a per-axis call in which d0 = 1 ties with d0 - PV[0][0] = -1 and d0 is returned
C5_Witness ==
    /\ Returned("dist_pts_periodic")
    /\ call.dim = 0
    /\ N = 1
    /\ M = 2
    /\ call.PV[1][1] = 2
    /\ call.nbrs[2][1] - call.pts[1][1] = 1
    /\ ReturnedFor(1, 2) = Float(1)

Min(a, b) == IF a <= b THEN a ELSE b

\* C6: for PV = [[Lx, 0], [0, Ly]] and |dx| <= Lx, |dy| <= Ly the distance is the
\* norm of (min(|dx|, Lx - |dx|), min(|dy|, Ly - |dy|)); the points (0.5, 0.5)
\* and (9.5, 0.5) with Lx = Ly = 10 are at distance 1.0 (2 in units of 1/2).
C6_RectangularLattice ==
    (Returned("dist_pts_periodic") /\ call.dim = -1 /\ ~call.square_norm
        /\ call.PV[1][2] = 0 /\ call.PV[2][1] = 0) =>
        /\ \A i \in 1..N, j \in 1..M :
              LET dx == Abs(call.nbrs[j][1] - call.pts[i][1])
                  dy == Abs(call.nbrs[j][2] - call.pts[i][2])
                  Lx == call.PV[1][1]
                  Ly == call.PV[2][2]
                  mx == Min(dx, Lx - dx)
                  my == Min(dy, Ly - dy)
              IN  (dx <= Lx /\ dy <= Ly) =>
                      /\ ReturnedFor(i, j).sign >= 0
                      /\ Square(ReturnedFor(i, j)) = mx * mx + my * my
        /\ (call.pts = ExamplePts /\ call.nbrs = ExampleNbrs /\ call.PV = ExamplePV)
               => result.value = <<<<Float(2)>>>>

\* the example: the image across the boundary is nearer than the point itself
C6_Witness ==
    /\ Returned("dist_pts_periodic")
    /\ call.dim = -1
    /\ ~call.square_norm
    /\ call.pts = ExamplePts
    /\ call.nbrs = ExampleNbrs
    /\ call.PV = ExamplePV
    /\ result.value = <<<<Float(2)>>>>
-----------------------------------------------------------------------------
(* Properties of CurveOrderer (CurveSpec, CurveFairSpec) *)

Range(seq) == {seq[k] : k \in 1..Len(seq)}

Count(seq, x) == Cardinality({k \in 1..Len(seq) : seq[k] = x})

\* the same points, each as many times
SameBag(s, t) ==
    /\ Len(s) = Len(t)
    /\ \A x \in Range(s) \cup Range(t) : Count(s, x) = Count(t, x)

Last(seq) == seq[Len(seq)]

NearestRun == call.fn = "order_curve" /\ call.method = "nearest"

\* a loop iteration of order_curve is taken in this step
Iterates == pc = "loop" /\ NearestRun /\ iters' = iters + 1

\* C7: the point an iteration moves from Remaining (pass_by) to Ordered (path) is
\* a point of Remaining at minimum distance from the last point of Ordered, and
\* Ordered starts with the seed curve[ind0].
C7_MovesNearest ==
    [][/\ (path' # <<>>) => path'[1] = call.curve[call.ind0 + 1]
       /\ Iterates =>
            LET moved == Last(path')
            IN  /\ path' = Append(path, moved)
                /\ \E k \in 1..Len(pass_by) : pass_by[k] = moved
                /\ \A k \in 1..Len(pass_by) :
                      SquaredDistance(moved, Last(path))
                          <= SquaredDistance(pass_by[k], Last(path))
                /\ SameBag(pass_by, Append(pass_by', moved))]_vars

\* the second point placed is the nearer curve[2], passing over curve[1]
C7_Witness ==
    /\ pc = "loop"
    /\ NearestRun
    /\ call.ind0 = 0
    /\ Len(call.curve) = 3
    /\ Len(path) = 2
    /\ path[2] = call.curve[3]
    /\ call.curve[3] # call.curve[1]
    /\ SquaredDistance(call.curve[3], call.curve[1])
           < SquaredDistance(call.curve[2], call.curve[1])

\* C8: order_curve returns (path, inds) with path[k] == curve[inds[k]] for all k,
\* inds[0] == ind0 and inds holding every index 0..N-1 exactly once, coincident
\* points included.
C8_IndicesArePermutation ==
    (pc = "done" /\ NearestRun) =>
        LET n == Len(call.curve)
        IN  /\ result.value = <<path, inds>>
            /\ Len(inds) = n
            /\ Len(path) = n
            /\ \A k \in 1..n : path[k] = call.curve[inds[k] + 1]
            /\ inds[1] = call.ind0
            /\ \A x \in 0..(n - 1) : Count(inds, x) = 1

\* C9: every iteration moves exactly one point from Remaining to Ordered,
\* |Ordered| + |Remaining| = N throughout, and the call ends, after exactly
\* N - 1 iterations, with Remaining empty and Ordered a permutation of the input.
\* Termination is stated by its variant: after iters iterations exactly
\* iters + 1 points are placed, iters never exceeds N - 1, and the loop test
\* `while pass_by` fails exactly when iters = N - 1.
C9_Terminates ==
    (NearestRun /\ pc \in {"loop", "done"}) =>
        LET n == Len(call.curve)
        IN  /\ Len(path) + Len(pass_by) = n
            /\ Len(path) = iters + 1
            /\ SameBag(path \o pass_by, call.curve)
            /\ iters <= n - 1
            /\ (pc = "loop") => ((pass_by = <<>>) <=> (iters = n - 1))
            /\ (pc = "done") =>
                  /\ pass_by = <<>>
                  /\ iters = n - 1
                  /\ SameBag(path, call.curve)
                  /\ result = Ok(<<path, inds>>)

\* under sequential execution a call with method='nearest' returns
OrderCurveReturns == (pc = "loop" /\ NearestRun) ~> (pc = "done")

\* a call on three points, two of them coincident, has returned
C9_Witness ==
    /\ pc = "done"
    /\ NearestRun
    /\ Len(call.curve) = 3
    /\ call.curve[1] = call.curve[3]
    /\ call.curve[1] # call.curve[2]
    /\ iters = 2
    /\ pass_by = <<>>

\* C10: when several points of Remaining are at the same minimum distance from the
\* last placed point, the one of lowest original index is appended and the index
\* recorded is its original index, not recorded before.
C10_LowestIndexOnTie ==
    [][Iterates =>
         LET remaining == (0..(Len(call.curve) - 1)) \ Range(inds)
             dist(x) == SquaredDistance(call.curve[x + 1], Last(path))
             tied == {x \in remaining : \A y \in remaining : dist(x) <= dist(y)}
         IN  Cardinality(tied) >= 2 =>
                 LET lowest == CHOOSE x \in tied : \A y \in tied : x <= y
                 IN  /\ Last(inds') = lowest
                     /\ Last(path') = call.curve[lowest + 1]
                     /\ Last(inds') \notin Range(inds)]_vars

-----------------------------------------------------------------------------
(* Properties of CurveOrderer, continued (CurveSpec) *)

\* C11: order_curve called with any method other than 'nearest' fails with an
\* error for every input, a curve of the seed point only (N = 1) included, and
\* never returns a result.
C11_OtherMethodFails ==
    (call.fn = "order_curve" /\ call.method # "nearest") =>
        /\ pc # "done"
        /\ result.status # "ok"

-----------------------------------------------------------------------------
(* Properties of the neighbour queries and match_values (SeparationSpec) *)

\* the positions (1-based) of the points at distance > 0 from point i
Others(pts, i) == {j \in 1..Len(pts) : SquaredDistance(pts[i], pts[j]) > 0}

\* the m-th smallest distance from point i to the points of Others
NthNearestDistance(pts, i, m) ==
    LET J == Others(pts, i)
        D(j) == SquaredDistance(pts[i], pts[j])
        nth == CHOOSE j \in J :
                   /\ Cardinality({x \in J : D(x) < D(j)}) < m
                   /\ m <= Cardinality({x \in J : D(x) <= D(j)})
    IN  np_sqrt(D(nth))

\* C12: for each point i, interparticle_separation(pts, nnbrs=k) yields the k
\* nearest other points, the point itself excluded, ordered by increasing
\* distance (all of them when there are fewer than k); read as distances, the
\* row of point i holds the k smallest distances > 0 from point i in increasing
\* order, e.g. 1 and 2 for index 0 of [(0,0),(1,0),(2,0),(10,10)] with k = 2.
C12_KNearestOthers ==
    (Returned("interparticle_separation") /\ call.nbr_cutoff = None) =>
        \A i \in 1..Len(call.pts) :
            LET k == Min(call.nnbrs, Cardinality(Others(call.pts, i)))
            IN  result.value[i] = [m \in 1..k |-> NthNearestDistance(call.pts, i, m)]

\* the positions (1-based) of the points j with 0 < distance(i, j) < c
Within(pts, i, c) ==
    {j \in 1..Len(pts) :
        /\ SquaredDistance(pts[i], pts[j]) > 0
        /\ c > 0
        /\ SquaredDistance(pts[i], pts[j]) < c * c}

\* the elements of a set of integers in increasing order
Ascending(S) ==
    [r \in 1..Cardinality(S) |->
        CHOOSE j \in S : Cardinality({x \in S : x < j}) = r - 1]

CutoffRun ==
    Returned("interparticle_separation") /\ call.nbr_cutoff # None

NearestValues(arr, v) ==
    {j \in 0..(Len(arr) - 1) :
        \A k \in 0..(Len(arr) - 1) : Abs(arr[j + 1] - v) <= Abs(arr[k + 1] - v)}

\* C14: match_values(vals, arr) returns one index per element of vals, and the
\* i-th index is the lowest index j into arr that minimises |arr[j] - vals[i]|.
C14_NearestValue ==
    Returned("match_values") =>
        /\ Len(result.value) = Len(call.vals)
        /\ \A i \in 1..Len(call.vals) :
              /\ result.value[i] \in NearestValues(call.arr, call.vals[i])
              /\ \A j \in NearestValues(call.arr, call.vals[i]) : result.value[i] <= j

\* two values matched against a longer array whose first two elements are
\* equally near the first value
C14_Witness ==
    /\ Returned("match_values")
    /\ Len(call.vals) = 2
    /\ Len(call.arr) = 3
    /\ call.vals[1] # call.vals[2]
    /\ {0, 1} \subseteq NearestValues(call.arr, call.vals[1])
    /\ result.value[1] = 0
    /\ result.value[2] = 2

-----------------------------------------------------------------------------
(* Properties of PeriodicPairwiseDistance, continued (PeriodicSpec) *)

\* PV is two lattice vectors of two coordinates each
TwoByTwo(PV) == Len(PV) = 2 /\ \A r \in 1..Len(PV) : Len(PV[r]) = 2

\* C16: dist_pts_periodic fails with an error, before computing any distance,
\* whenever PV is not exactly a 2 x 2 structure: the call ends with the
\* RuntimeError of line 1251 and has no value.
C16_InvalidLattice ==
    (call.fn = "dist_pts_periodic" /\ ~TwoByTwo(call.PV)) =>
        result = [status |-> "RuntimeError"]

\* a call with two lattice vectors of three coordinates each has failed
C16_Witness ==
    /\ call.fn = "dist_pts_periodic"
    /\ Len(call.PV) = 2
    /\ Len(call.PV[1]) = 3
    /\ result.status = "RuntimeError"

-----------------------------------------------------------------------------
(* Properties of CurveOrderer: frame and straight lines (CurveSpec) *)

\* C18: order_curve never mutates the caller's point set: throughout and after
\* the call, whether curve was passed as a list of lists or as an array, the
\* caller's object holds the same points in the same order as before; only the
\* internal working copy pass_by, an object of its own, shrinks.
C18_CallerUntouched ==
    call.fn = "order_curve" =>
        /\ caller_curve = call.curve
        /\ pass_by_obj # "caller"
        /\ pc \in {"loop", "done", "error"} =>
              Len(pass_by) < Len(call.curve)

\* a call on a list of three points has returned: pass_by is empty and the
\* caller's list still holds its three points
C18_Witness ==
    /\ pc = "done"
    /\ NearestRun
    /\ call.is_list
    /\ Len(call.curve) = 3
    /\ pass_by = <<>>
    /\ Len(caller_curve) = 3

\* (p - s) . (q - s)
DotFrom(s, p, q) ==
    LET RECURSIVE Acc(_)
        Acc(n) == IF n = 0 THEN 0
                  ELSE Acc(n - 1) + (p[n] - s[n]) * (q[n] - s[n])
    IN  Acc(Len(s))

\* the points of curve are pairwise distinct
Distinct(curve) ==
    \A a, b \in 1..Len(curve) : a # b => curve[a] # curve[b]

\* the points lie on one straight line and s is at one end of it: seen from s,
\* any two other points are in the same direction
OnRayFrom(curve, s) ==
    \A a, b \in 1..Len(curve) :
        (curve[a] # s /\ curve[b] # s) =>
            /\ DotFrom(s, curve[a], curve[b]) > 0
            /\ DotFrom(s, curve[a], curve[b]) * DotFrom(s, curve[a], curve[b])
                  = SquaredDistance(curve[a], s) * SquaredDistance(curve[b], s)

\* C19: for distinct points lying on a straight line with the seed at one end
\* of the line, order_curve returns the points in monotone (increasing) order
\* of distance from the seed together with their original positions; for
\* pts = [(0,0),(2,0),(1,0)] and ind0 = 0 the path is [(0,0),(1,0),(2,0)] and
\* the index sequence is [0, 2, 1].
C19_StraightLine ==
    (/\ pc = "done"
     /\ NearestRun
     /\ Distinct(call.curve)
     /\ OnRayFrom(call.curve, call.curve[call.ind0 + 1])) =>
        LET n == Len(call.curve)
            seed == call.curve[call.ind0 + 1]
        IN  /\ result.value = <<path, inds>>
            /\ Len(path) = n
            /\ Len(inds) = n
            /\ \A k \in 1..(n - 1) :
                  SquaredDistance(path[k], seed) < SquaredDistance(path[k + 1], seed)
            /\ \A k \in 1..n :
                  /\ inds[k] \in 0..(n - 1)
                  /\ path[k] = call.curve[inds[k] + 1]
            /\ (call.curve = ExampleCurve /\ call.ind0 = 0) =>
                  /\ path = <<<<0, 0>>, <<1, 0>>, <<2, 0>>>>
                  /\ inds = <<0, 2, 1>>

\* the call on [(0,0),(2,0),(1,0)] seeded at index 0 has returned
C19_Witness ==
    /\ pc = "done"
    /\ NearestRun
    /\ call.curve = ExampleCurve
    /\ call.ind0 = 0
    /\ Distinct(call.curve)
    /\ OnRayFrom(call.curve, call.curve[1])
    /\ inds = <<0, 2, 1>>

-----------------------------------------------------------------------------
(* Properties of NeighborMatcher, continued (Spec) *)

\* C20: match_points(A, A) returns the identity permutation [0, 1, ..., N-1]
\* for every point set A whose points are pairwise distinct.
C20_SelfMatchIsIdentity ==
    (/\ Returned("match_points")
     /\ call.pts = call.nbrs
     /\ Distinct(call.pts)) =>
        result.value = [i \in 1..N |-> i - 1]

\* three pairwise distinct points of the plane matched against themselves
C20_Witness ==
    /\ Returned("match_points")
    /\ call.pts = call.nbrs
    /\ N = 3
    /\ Len(call.pts[1]) = 2
    /\ Distinct(call.pts)
    /\ result.value = <<0, 1, 2>>

-----------------------------------------------------------------------------
(* Properties of PairwiseDistance, continued (Spec) *)

\* C21: for every point set A, dist_pts(A, A) (the norm over all coordinates,
\* dim left at its default, squared or not) has a zero diagonal and is
\* symmetric: entry (i,i) = 0 and entry (i,j) = entry (j,i) for all i, j.
C21_SelfDistanceSymmetric ==
    (/\ Returned("dist_pts")
     /\ call.pts = call.nbrs
     /\ call.dim = -1) =>
        /\ IsMatrix(result.value, N, N)
        /\ \A i \in 1..N : result.value[i][i] = Float(0)
        /\ \A i, j \in 1..N : result.value[i][j] = result.value[j][i]

\* the distances within three pairwise distinct points of the plane
C21_Witness ==
    /\ Returned("dist_pts")
    /\ call.pts = call.nbrs
    /\ call.dim = -1
    /\ ~call.square_norm
    /\ N = 3
    /\ Len(call.pts[1]) = 2
    /\ Distinct(call.pts)
    /\ result.value[1][2] = result.value[2][1]
    /\ result.value[1][2] # Float(0)

-----------------------------------------------------------------------------
(* Properties of a session (SessionSpec) *)

\* the current call has returned or raised
Finished == call.fn # "none" /\ pc \in {"idle", "done", "error"}

\* the calls of the session so far that had the arguments of the current one
SameCallEarlier == {e \in earlier : e.call.fn = call.fn /\ e.call = call}

-----------------------------------------------------------------------------
(* Properties of batch_reindex_files (ReindexSpec) *)

\* the files that existed when the script started still hold what they held
OriginalsKept ==
    \A p \in DOMAIN call.before :
        p \in DOMAIN files /\ files[p] = call.before[p]

\* the files copied so far, each source with its target
Copied == {stdout[k] : k \in 1..Len(stdout)}

\* C23: batch_reindex_files never overwrites a file: for every source file
\* whose shifted target name differs from its own name, a target that already
\* exists stops the run with an error instead of a copy, so throughout and
\* after any run, successful or failed, every file that existed before the run
\* still has its original content, and every copy went to a name that was free.
C23_NeverOverwrites ==
    call.fn = "batch_reindex_files" =>
        /\ OriginalsKept
        /\ \A c \in Copied :
              /\ c[2] \notin DOMAIN call.before
              /\ files[c[2]] = call.before[c[1]]
        /\ pc = "error" =>
              /\ result = [status |-> "RuntimeError"]
              /\ NewFn \in DOMAIN files

\* a run in place has failed on a name that is taken after it copied a file
C23_Witness ==
    /\ call.fn = "batch_reindex_files"
    /\ call.outdir = "datadir"
    /\ pc = "error"
    /\ Len(stdout) = 1
    /\ NewFn \in DOMAIN call.before
    /\ OriginalsKept

\* C30: batch_reindex_files is all-or-nothing on the overwrite error: whenever a
\* run ends with 'File already exists', no file has been copied by that run,
\* i.e. the set of files in the output directory is the same as before the run.
C30_AllOrNothing ==
    (call.fn = "batch_reindex_files" /\ pc = "error") =>
        /\ stdout = <<>>
        /\ DOMAIN files = DOMAIN call.before

-----------------------------------------------------------------------------
(* Properties of find_missing_files (FindSpec) *)

\* the zero-padded indices of start..end, end included, that no file has
MissingUpToEnd ==
    {zfill(Str(i), call.padding) : i \in
        {j \in call.start..call.end :
            <<"datadir", zfill(Str(j), call.padding)>> \notin DOMAIN files}}

\* the indices reported, and whether the closing line was printed
Reported ==
    {stdout[k].index : k \in {m \in 1..Len(stdout) : stdout[m].line = "Did not find: "}}

NoneMissingPrinted ==
    \E k \in 1..Len(stdout) : stdout[k].line = "Did not find any missing files!"

\* C24: find_missing_files examines every integer index from start up to and
\* including end and reports an index as missing exactly when no file with that
\* zero-padded index exists; it prints 'Did not find any missing files!' only
\* when no index in that range is missing.
C24_ReportsMissing ==
    (call.fn = "find_missing_files" /\ pc = "done") =>
        /\ Reported = MissingUpToEnd
        /\ NoneMissingPrinted => MissingUpToEnd = {}

-----------------------------------------------------------------------------
(* Properties of find_peaks, sortrows_2d and first_true (ArraySpec) *)

\* the positions (0-based) of the strict local maxima of arr
StrictMaxima(arr) ==
    {i \in 1..(Len(arr) - 2) : arr[i] < arr[i + 1] /\ arr[i + 1] > arr[i + 2]}

\* C25: every index returned by find_peaks(arr, npeaks=n), with n None or a
\* positive integer, is a position i of arr that is a strict local maximum
\* (arr[i-1] < arr[i] > arr[i+1]); when n is given, the result is the
\* positions in arr of the n largest such peaks (of all of them when there are
\* fewer than n).
C25_PeakPositions ==
    (Returned("find_peaks") /\ call.npeaks # <<0>>) =>
        LET peaks == StrictMaxima(call.arr)
            got == Range(result.value)
        IN  /\ got \subseteq peaks
            /\ call.npeaks # None =>
                  /\ Cardinality(got) = Min(call.npeaks[1], Cardinality(peaks))
                  /\ \A i \in got, j \in peaks \ got :
                        call.arr[i + 1] >= call.arr[j + 1]

\* how often row occurs in rows
Occurrences(rows, row) == Cardinality({k \in 1..Len(rows) : rows[k] = row})

\* rows a and b are in order: by column first (1-based), then by the other
\* column, column 1 descending iff xdescending, column 2 iff ydescending
InOrder(a, b, first, xdescending, ydescending) ==
    LET other == 3 - first
        Sign(col) == IF (col = 1 /\ xdescending) \/ (col = 2 /\ ydescending)
                     THEN -1 ELSE 1
    IN  \/ Sign(first) * a[first] < Sign(first) * b[first]
        \/ /\ a[first] = b[first]
           /\ Sign(other) * a[other] <= Sign(other) * b[other]

\* C26: sortrows_2d(arr, priority, xdescending, ydescending) returns the rows
\* of arr sorted primarily by column priority and secondarily by the other
\* column, column 0 in descending order exactly when xdescending and column 1
\* exactly when ydescending, for priority 0 as for priority 1; any other
\* priority raises an error.
C26_SortedByPriority ==
    call.fn = "sortrows_2d" =>
        IF call.priority \in {0, 1}
        THEN /\ result.status = "ok"
             /\ Len(result.value) = Len(call.arr)
             /\ \A k \in 1..Len(call.arr) :
                   Occurrences(result.value, call.arr[k]) =
                       Occurrences(call.arr, call.arr[k])
             /\ \A k \in 1..(Len(result.value) - 1) :
                   InOrder(result.value[k], result.value[k + 1],
                           call.priority + 1, call.xdescending, call.ydescending)
        ELSE result.status = "RuntimeError"

\* the position (0-based) of the first nonzero element of row, -1 if none
FirstNonzero(row) ==
    IF \A k \in 1..Len(row) : row[k] = 0
    THEN -1
    ELSE (CHOOSE k \in 1..Len(row) :
             row[k] # 0 /\ \A m \in 1..(k - 1) : row[m] = 0) - 1

\* C28: first_true(arr) returns, for each row of arr, the index of the first
\* nonzero element of the row, and -1 exactly when all elements of the row are
\* zero, whatever numbers the rows hold.
C28_FirstNonzero ==
    Returned("first_true") =>
        /\ Len(result.value) = Len(call.arr)
        /\ \A i \in 1..Len(call.arr) :
              result.value[i] = FirstNonzero(call.arr[i])

-----------------------------------------------------------------------------
(* Properties of the HDF5 wrapper (H5Spec) *)

RECURSIVE SameShape(_, _)

\* what a loaded dictionary holds at a key is what was written there: the
\* same scalar, the same array, and for a dictionary a dictionary of its own
\* with exactly the keys of the written one, each the same in turn
SameShape(loaded, written) ==
    IF written.kind = "dict"
    THEN /\ loaded.kind = "ref"
         /\ DOMAIN default_ans = DOMAIN written.v
         /\ \A k \in DOMAIN written.v : SameShape(default_ans[k], written.v[k])
    ELSE loaded = written

\* C27: after write_rec(f, ddict, key='U') into a new file, load_dict on the
\* file (in an interpreter that has not called load_dict before) returns a
\* dictionary with the nested shape of what was written: the one key 'U',
\* holding a dictionary with exactly the entries of ddict, each nested
\* dictionary a dictionary of its own holding exactly its entries.
C27_RoundTrip ==
    (call.fn = "example_2" /\ call.b /\ earlier = {}) =>
        /\ result.status = "ok"
        /\ SameShape(result.value, Dict([U |-> Dict(call.ddict)]))

\* the names in an HDF5 file: of its groups, attributes and datasets
NamesIn(f) ==
    {g[Len(g)] : g \in f.groups \ {<<>>}}
    \cup {ak[2] : ak \in DOMAIN f.attrs}
    \cup {d[Len(d)] : d \in DOMAIN f.dsets}

\* C29: successive calls of load_dict(data) with the default ans are
\* independent: the dictionary a later call returns has no key that is not a
\* name in the file it loaded, and the dictionary an earlier call returned
\* still holds what it held when it was returned.
C29_CallsIndependent ==
    (call.fn \in {"example_2", "load_dict"} /\ earlier # {}) =>
        /\ DOMAIN default_ans \subseteq NamesIn(files[call.filename])
        /\ \A e \in earlier : default_ans = e.seen

====
